---- MODULE Spec2Model ----
(***************************************************************************)
(* A model of the CRM API request handlers of src/main.py.                 *)
(*                                                                         *)
(* Every handler is a short sequence of synchronous Record Store calls     *)
(* (supabase ... .execute()) followed by response shaping.  A store call   *)
(* either completes and yields data or raises; the handlers contain no     *)
(* try/except, so an exception anywhere ends the request with a server     *)
(* error.  One request is followed from its arrival (pc = "idle") to its   *)
(* response (pc = "done"); the blocking store calls are the steps.         *)
(*                                                                         *)
(* JSON values are records [t, i, s]: t is the JSON type ("null", "int",   *)
(* "str"), or "absent" for a key the row does not carry; i the integer;    *)
(* s the string as a sequence of character codes.                          *)
(***************************************************************************)
EXTENDS Integers, Sequences, FiniteSets, TLC

VARIABLES
    pc,        \* position of the request: "idle", a handler's next call, "done"
    op,        \* the handler serving the request
    req,       \* the validated request (query parameters or payload)
    issued,    \* Record Store calls issued by this request, in order
    data,      \* what the completed calls returned, in order
    resp,      \* the response: kind "none" until the handler ends
    assigned,  \* Record Store: candidate id -> executive the lead is assigned to
    cursor     \* elements of candidate_ids the loop of assign_bulk has consumed

vars == <<pc, op, req, issued, data, resp, assigned, cursor>>

-----------------------------------------------------------------------------
(* Bounds *)

MaxRows == 2      \* rows a dashboard / performance query returns
MaxLeads == 2     \* rows a lead-list query returns
MaxIds == 3       \* length of candidate_ids in a bulk assignment

-----------------------------------------------------------------------------
(* JSON values and Python's treatment of them *)

JAbsent == [t |-> "absent", i |-> 0, s |-> <<>>]
JNull == [t |-> "null", i |-> 0, s |-> <<>>]
JInt(n) == [t |-> "int", i |-> n, s |-> <<>>]
JStr(str) == [t |-> "str", i |-> 0, s |-> str]

BSeq(S, n) == UNION {[1..k -> S] : k \in 0..n}

\* dict.get(key, default): the default only for a key the row lacks; a key
\* present with null yields None.
get(x, key, default) == IF x[key].t = "absent" THEN default ELSE x[key]

\* bool(v) as used by `if v` / `v and ...` / `v or ...`
truthy(v) ==
    CASE v.t = "int" -> v.i # 0
      [] v.t = "str" -> v.s # <<>>
      [] OTHER -> FALSE

\* str.startswith(prefix)
startswith(str, prefix) ==
    /\ Len(str) >= Len(prefix)
    /\ SubSeq(str, 1, Len(prefix)) = prefix

\* Strings used by the handlers, as character codes.
FRESH == <<102, 114, 101, 115, 104>>
BARGAINING == <<98, 97, 114, 103, 97, 105, 110, 105, 110, 103>>
CONNECTED == <<99, 111, 110, 110, 101, 99, 116, 101, 100>>
NOT_LIFTED == <<110, 111, 116, 95, 108, 105, 102, 116, 101, 100>>
BUSY == <<98, 117, 115, 121>>
NEWEST == <<110, 101, 119, 101, 115, 116>>
OLDEST == <<111, 108, 100, 101, 115, 116>>
TODAY == <<116, 111, 100, 97, 121>>

\* "2024-01-" followed by the two digits of the day
Date(dd) == <<50, 48, 50, 52, 45, 48, 49, 45>> \o dd
Day02 == Date(<<48, 50>>)
Day03 == Date(<<48, 51>>)
\* what datetime.now().strftime("%Y-%m-%d") can return
Dates == {Day02, Day03}

Execs == {"A", "B"}
\* the executive the read-only requests ask about
QueryExecs == {"A"}
CandidateIds == {10, 11}

HotThreshold == 70

Err == [kind |-> "error"]
NoResp == [kind |-> "none"]

Call(name, params, ok) == [name |-> name, params |-> params, ok |-> ok]

-----------------------------------------------------------------------------
(* GET /executive/dashboard *)

HeatValues == {JAbsent, JNull, JInt(69), JInt(70)}
StatusValues == {JAbsent, JNull, JStr(FRESH), JStr(BARGAINING)}
FollowUpValues == {JAbsent, JNull, JStr(<<>>), JStr(Day02 \o <<84, 57>>)}

CandidateRows ==
    [lead_heat_score : HeatValues, lead_status : StatusValues,
     follow_up_at : FollowUpValues]

\* `v >= 70` raises TypeError unless v is a number
GeRaises(v) == v.t # "int"

is_hot(x) == get(x, "lead_heat_score", JInt(0)).i >= HotThreshold
is_status(x, str) == get(x, "lead_status", JNull) = JStr(str)
is_follow_up_today(x, today) ==
    /\ truthy(get(x, "follow_up_at", JNull))
    /\ startswith(x["follow_up_at"].s, today)

\* The body of get_dashboard after the query returned `rows`.
dashboard_summary(rows, today) ==
    IF \E k \in 1..Len(rows) : GeRaises(get(rows[k], "lead_heat_score", JInt(0)))
    THEN Err
    ELSE LET fresh(x) == is_status(x, FRESH)
             bargaining(x) == is_status(x, BARGAINING)
             follow(x) == is_follow_up_today(x, today)
         IN [kind |-> "summary",
             total_assigned |-> Len(rows),
             hot_leads |-> Len(SelectSeq(rows, is_hot)),
             followups_today |-> Len(SelectSeq(rows, follow)),
             fresh |-> Len(SelectSeq(rows, fresh)),
             bargainers |-> Len(SelectSeq(rows, bargaining))]

get_dashboard ==
    /\ pc = "idle"
    /\ \E executive_id \in QueryExecs, today \in Dates :
         /\ req' = [executive_id |-> executive_id, today |-> today]
         /\ \/ /\ issued' = <<Call("db_candidates.select", executive_id, FALSE)>>
               /\ data' = <<>>
               /\ resp' = Err
            \/ \E rows \in BSeq(CandidateRows, MaxRows) :
                 /\ issued' = <<Call("db_candidates.select", executive_id, TRUE)>>
                 /\ data' = <<rows>>
                 /\ resp' = dashboard_summary(rows, today)
    /\ op' = "get_dashboard"
    /\ pc' = "done"
    /\ UNCHANGED <<assigned, cursor>>

-----------------------------------------------------------------------------
(* GET /executive/performance *)

ActionValues == {JAbsent, JNull, JStr(CONNECTED), JStr(NOT_LIFTED), JStr(BUSY)}
CallLogRows == [action_type : ActionValues]
OfferSentRows == [offer_id : {JStr(<<111, 49>>)}]

\* c["action_type"] raises KeyError for a row without the key
SubscriptRaises(x, key) == x[key].t = "absent"

\* The body of exec_perf after both queries returned.
perf_summary(call_rows, offer_rows) ==
    IF \E k \in 1..Len(call_rows) : SubscriptRaises(call_rows[k], "action_type")
    THEN Err
    ELSE LET connected(c) == c["action_type"] = JStr(CONNECTED)
             not_lifted(c) == c["action_type"] = JStr(NOT_LIFTED)
         IN [kind |-> "perf",
             calls |-> Len(call_rows),
             connected |-> Len(SelectSeq(call_rows, connected)),
             not_lifted |-> Len(SelectSeq(call_rows, not_lifted)),
             offers_sent |-> Len(offer_rows)]

exec_perf ==
    /\ pc = "idle"
    /\ \E executive_id \in QueryExecs :
         /\ req' = [executive_id |-> executive_id]
         /\ \/ /\ issued' = <<Call("db_call_logs.select", executive_id, FALSE)>>
               /\ data' = <<>>
               /\ resp' = Err
               /\ pc' = "done"
            \/ \E rows \in BSeq(CallLogRows, MaxRows) :
                 /\ issued' = <<Call("db_call_logs.select", executive_id, TRUE)>>
                 /\ data' = <<rows>>
                 /\ resp' = NoResp
                 /\ pc' = "perf_offers"
    /\ op' = "exec_perf"
    /\ UNCHANGED <<assigned, cursor>>

exec_perf_offers ==
    /\ pc = "perf_offers"
    /\ \/ /\ issued' = Append(issued, Call("db_offers_sent.select", req.executive_id, FALSE))
          /\ data' = data
          /\ resp' = Err
       \/ \E rows \in BSeq(OfferSentRows, MaxRows) :
            /\ issued' = Append(issued, Call("db_offers_sent.select", req.executive_id, TRUE))
            /\ data' = Append(data, rows)
            /\ resp' = perf_summary(data[1], rows)
    /\ pc' = "done"
    /\ UNCHANGED <<op, req, assigned, cursor>>

-----------------------------------------------------------------------------
(* Single-row lookups: .maybe_single().execute() *)

\* A lead row as the list, detail and manager handlers read it.
CreatedValues == {JAbsent, JStr(Day02), JStr(Day03)}
LeadRows == [id : {JInt(1), JInt(2)}, created_at : CreatedValues]

NAME == <<65, 115, 104, 97>>
ExecRows == [executive_id : {JStr(<<65>>)}, name : {JAbsent, JNull, JStr(NAME)}]
\* the empty object {}
EmptyObject == [executive_id |-> JAbsent, name |-> JAbsent]

TimelineRows == [event : {JStr(<<99, 97, 108, 108>>)}]

\* What maybe_single().execute() hands back when it does not raise.  `row` is
\* <<r>> for the matching row r and <<>> for null.  With no matching row the
\* client library of the build decides: a response whose data is null, or no
\* response object at all (None).
Found(r) == [none |-> FALSE, row |-> <<r>>]
NullData == [none |-> FALSE, row |-> <<>>]
NoneResponse == [none |-> TRUE, row |-> <<>>]
MaybeSingle(Rows) == {Found(r) : r \in Rows} \cup {NullData, NoneResponse}

\* res.data raises AttributeError when res is None
DataRaises(res) == res.none

\* `res.data or {}`
profile_body(res) == IF res.row = <<>> THEN EmptyObject ELSE res.row[1]

get_profile ==
    /\ pc = "idle"
    /\ \E phone \in {<<57, 49>>} :
         /\ req' = [phone |-> phone]
         /\ \/ /\ issued' = <<Call("db_executives.maybe_single", phone, FALSE)>>
               /\ data' = <<>>
               /\ resp' = Err
            \/ \E res \in MaybeSingle(ExecRows) :
                 /\ issued' = <<Call("db_executives.maybe_single", phone, TRUE)>>
                 /\ data' = <<res>>
                 /\ resp' = IF DataRaises(res) THEN Err
                            ELSE [kind |-> "profile", body |-> profile_body(res)]
    /\ op' = "get_profile"
    /\ pc' = "done"
    /\ UNCHANGED <<assigned, cursor>>

(* GET /manager/executive/leads *)

\* exec_profile.data.get("name", "") raises AttributeError when exec_profile
\* is None and when its data is None
NameRaises(exec_profile) == DataRaises(exec_profile) \/ exec_profile.row = <<>>

manager_response(exec_profile, leads) ==
    IF NameRaises(exec_profile) THEN Err
    ELSE [kind |-> "manager",
          name |-> get(exec_profile.row[1], "name", JStr(<<>>)),
          assigned_count |-> Len(leads),
          leads |-> leads]

manager_leads ==
    /\ pc = "idle"
    /\ \E executive_id \in QueryExecs :
         /\ req' = [executive_id |-> executive_id]
         /\ \/ /\ issued' = <<Call("db_executives.maybe_single", executive_id, FALSE)>>
               /\ data' = <<>>
               /\ resp' = Err
               /\ pc' = "done"
            \/ \E res \in MaybeSingle(ExecRows) :
                 /\ issued' = <<Call("db_executives.maybe_single", executive_id, TRUE)>>
                 /\ data' = <<res>>
                 /\ resp' = NoResp
                 /\ pc' = "manager_candidates"
    /\ op' = "manager_leads"
    /\ UNCHANGED <<assigned, cursor>>

manager_leads_candidates ==
    /\ pc = "manager_candidates"
    /\ \/ /\ issued' = Append(issued, Call("db_candidates.select", req.executive_id, FALSE))
          /\ data' = data
          /\ resp' = Err
       \/ \E rows \in BSeq(LeadRows, MaxLeads) :
            /\ issued' = Append(issued, Call("db_candidates.select", req.executive_id, TRUE))
            /\ data' = Append(data, rows)
            /\ resp' = manager_response(data[1], rows)
    /\ pc' = "done"
    /\ UNCHANGED <<op, req, assigned, cursor>>

(* GET /lead/detail *)

detail_response(cand, timeline_rows, offer_rows) ==
    IF DataRaises(cand) THEN Err
    ELSE [kind |-> "detail", candidate |-> cand.row,
          timeline |-> timeline_rows, offers |-> offer_rows]

lead_detail ==
    /\ pc = "idle"
    /\ \E id \in CandidateIds :
         /\ req' = [id |-> id]
         /\ \/ /\ issued' = <<Call("db_candidates.maybe_single", id, FALSE)>>
               /\ data' = <<>>
               /\ resp' = Err
               /\ pc' = "done"
            \/ \E res \in MaybeSingle(LeadRows) :
                 /\ issued' = <<Call("db_candidates.maybe_single", id, TRUE)>>
                 /\ data' = <<res>>
                 /\ resp' = NoResp
                 /\ pc' = "detail_timeline"
    /\ op' = "lead_detail"
    /\ UNCHANGED <<assigned, cursor>>

lead_detail_timeline ==
    /\ pc = "detail_timeline"
    /\ \/ /\ issued' = Append(issued, Call("get_timeline", req.id, FALSE))
          /\ data' = data
          /\ resp' = Err
          /\ pc' = "done"
       \/ \E rows \in BSeq(TimelineRows, MaxRows) :
            /\ issued' = Append(issued, Call("get_timeline", req.id, TRUE))
            /\ data' = Append(data, rows)
            /\ resp' = NoResp
            /\ pc' = "detail_offers"
    /\ UNCHANGED <<op, req, assigned, cursor>>

lead_detail_offers ==
    /\ pc = "detail_offers"
    /\ \/ /\ issued' = Append(issued, Call("get_offers_for_candidate", req.id, FALSE))
          /\ data' = data
          /\ resp' = Err
       \/ \E rows \in BSeq(OfferSentRows, MaxRows) :
            /\ issued' = Append(issued, Call("get_offers_for_candidate", req.id, TRUE))
            /\ data' = Append(data, rows)
            /\ resp' = detail_response(data[1], data[2], rows)
    /\ pc' = "done"
    /\ UNCHANGED <<op, req, assigned, cursor>>

-----------------------------------------------------------------------------
(* Writes with one store call and an acknowledgement *)

Ack == [kind |-> "ack", status |-> "success"]

\* Variant of execute_then_ack that acknowledges whatever the call did.
execute_ack_always(handler, request, name, params) ==
    /\ pc = "idle"
    /\ req' = request
    /\ \E ok \in BOOLEAN : issued' = <<Call(name, params, ok)>>
    /\ resp' = Ack
    /\ data' = <<>>
    /\ op' = handler
    /\ pc' = "done"
    /\ UNCHANGED <<assigned, cursor>>

\* one .execute() and then `return {"status": "success"}`
execute_then_ack(handler, request, name, params) ==
    /\ pc = "idle"
    /\ req' = request
    /\ \E ok \in BOOLEAN :
         /\ issued' = <<Call(name, params, ok)>>
         /\ resp' = IF ok THEN Ack ELSE Err
    /\ data' = <<>>
    /\ op' = handler
    /\ pc' = "done"
    /\ UNCHANGED <<assigned, cursor>>

log_call ==
    \E candidate_id \in CandidateIds, executive_id \in QueryExecs,
       type \in {CONNECTED, NOT_LIFTED} :
      execute_then_ack("log_call",
          [candidate_id |-> candidate_id, executive_id |-> executive_id,
           type |-> type, details |-> "{}"],
          "log_call_rpc",
          [p_candidate_id |-> candidate_id, p_exec |-> executive_id,
           p_type |-> type, p_details |-> "{}"])

add_note ==
    \E candidate_id \in CandidateIds, executive_id \in QueryExecs :
      execute_then_ack("add_note",
          [candidate_id |-> candidate_id, executive_id |-> executive_id,
           note |-> "n"],
          "db_notes.insert",
          [candidate_id |-> candidate_id, executive_id |-> executive_id,
           note |-> "n"])

schedule_followup ==
    \E candidate_id \in CandidateIds, executive_id \in QueryExecs,
       schedule_time \in Dates :
      execute_then_ack("schedule_followup",
          [candidate_id |-> candidate_id, executive_id |-> executive_id,
           schedule_time |-> schedule_time],
          "schedule_followup",
          [p_candidate_id |-> candidate_id, p_exec |-> executive_id,
           p_time |-> schedule_time])

update_status ==
    \E candidate_id \in CandidateIds, executive_id \in QueryExecs,
       status \in {FRESH, BARGAINING} :
      execute_then_ack("update_status",
          [candidate_id |-> candidate_id, executive_id |-> executive_id,
           status |-> status],
          "update_lead_status",
          [p_candidate_id |-> candidate_id, p_status |-> status,
           p_exec |-> executive_id])

send_offer ==
    \E candidate_id \in CandidateIds, executive_id \in QueryExecs :
      execute_then_ack("send_offer",
          [candidate_id |-> candidate_id, executive_id |-> executive_id,
           offer_id |-> "o1"],
          "record_offer_sent",
          [p_candidate_id |-> candidate_id, p_exec |-> executive_id,
           p_offer |-> "o1"])

-----------------------------------------------------------------------------
(* Reads with one store call that return the rows as they come *)

\* one .execute() and then `return res.data` / `return res.data or []`
execute_then_rows(handler, request, name, params, Rows) ==
    /\ pc = "idle"
    /\ req' = request
    /\ \/ /\ issued' = <<Call(name, params, FALSE)>>
          /\ data' = <<>>
          /\ resp' = Err
       \/ \E rows \in BSeq(Rows, MaxRows) :
            /\ issued' = <<Call(name, params, TRUE)>>
            /\ data' = <<rows>>
            /\ resp' = [kind |-> "rows", rows |-> rows]
    /\ op' = handler
    /\ pc' = "done"
    /\ UNCHANGED <<assigned, cursor>>

timeline ==
    \E candidate_id \in CandidateIds :
      execute_then_rows("timeline", [candidate_id |-> candidate_id],
          "get_timeline", [p_candidate_id |-> candidate_id], TimelineRows)

state_heatmap ==
    execute_then_rows("state_heatmap", <<>>, "state_heatmap", <<>>,
        [state : {JStr(<<75, 65>>)}, leads : {JInt(3)}])

followups ==
    \E executive_id \in QueryExecs, date \in Dates :
      execute_then_rows("followups",
          [executive_id |-> executive_id, date |-> date],
          "db_followups.select",
          [executive_id |-> executive_id, like |-> date \o <<37>>],
          [follow_up_at : {JStr(date \o <<84, 57>>)}])

-----------------------------------------------------------------------------
(* Lead lists: GET and POST /executive/leads *)

\* a < b for Python strings: by code point, a proper prefix first
RECURSIVE StrLess(_, _)
StrLess(a, b) ==
    IF a = <<>> THEN b # <<>>
    ELSE IF b = <<>> THEN FALSE
    ELSE IF Head(a) = Head(b) THEN StrLess(Tail(a), Tail(b))
    ELSE Head(a) < Head(b)

\* key=lambda x: x.get("created_at", "")
created_key(x) == get(x, "created_at", JStr(<<>>)).s

\* Variant of insert_newest that lets x overtake rows with an equal key.
RECURSIVE insert_newest_overtaking(_, _)
insert_newest_overtaking(placed, x) ==
    IF placed = <<>> THEN <<x>>
    ELSE IF ~StrLess(created_key(x), created_key(Head(placed)))
         THEN <<x>> \o placed
         ELSE <<Head(placed)>> \o insert_newest_overtaking(Tail(placed), x)

\* One step of the stable descending sort: x goes behind every row already
\* placed whose key is not smaller than its own.
RECURSIVE insert_newest(_, _)
insert_newest(placed, x) ==
    IF placed = <<>> THEN <<x>>
    ELSE IF StrLess(created_key(Head(placed)), created_key(x))
         THEN <<x>> \o placed
         ELSE <<Head(placed)>> \o insert_newest(Tail(placed), x)

RECURSIVE sort_from(_, _)
sort_from(placed, rest) ==
    IF rest = <<>> THEN placed
    ELSE sort_from(insert_newest(placed, Head(rest)), Tail(rest))

\* sorted(leads, key=..., reverse=True): descending, equal keys in input order
sorted_newest(leads) == sort_from(<<>>, leads)

\* `if sort == "newest": leads = sorted(...)`
order_leads(leads, sort) ==
    IF sort = JStr(NEWEST) THEN sorted_newest(leads) ELSE leads

list_response(executive_id, leads) ==
    [kind |-> "list", executive_id |-> executive_id,
     lead_count |-> Len(leads), leads |-> leads]

Pred(col, cmp, val) == [col |-> col, cmp |-> cmp, val |-> val]

\* the query lead_list_get builds
simple_query(executive_id, status, heat_min, follow_up_due, today) ==
    <<Pred("executive_id", "eq", executive_id)>>
    \o (IF truthy(status) THEN <<Pred("lead_status", "eq", status)>> ELSE <<>>)
    \o (IF truthy(heat_min) THEN <<Pred("lead_heat_score", "gte", heat_min)>> ELSE <<>>)
    \o (IF follow_up_due = JStr(TODAY)
        THEN <<Pred("follow_up_at", "like", JStr(today \o <<37>>))>> ELSE <<>>)

lead_list_get ==
    /\ pc = "idle"
    /\ \E executive_id \in QueryExecs,
          status \in {JNull, JStr(<<>>), JStr(FRESH)},
          heat_min \in {JNull, JInt(0), JInt(70)},
          follow_up_due \in {JNull, JStr(TODAY)},
          sort \in {JNull, JStr(NEWEST), JStr(OLDEST)},
          today \in Dates :
         LET q == simple_query(executive_id, status, heat_min, follow_up_due, today)
         IN /\ req' = [executive_id |-> executive_id, status |-> status,
                       heat_min |-> heat_min, follow_up_due |-> follow_up_due,
                       sort |-> sort]
            /\ \/ /\ issued' = <<Call("db_candidates.select", q, FALSE)>>
                  /\ data' = <<>>
                  /\ resp' = Err
               \/ \E rows \in BSeq(LeadRows, MaxLeads) :
                    /\ issued' = <<Call("db_candidates.select", q, TRUE)>>
                    /\ data' = <<rows>>
                    /\ resp' = list_response(executive_id, order_leads(rows, sort))
    /\ op' = "lead_list_get"
    /\ pc' = "done"
    /\ UNCHANGED <<assigned, cursor>>

DefaultMaxHeat == 100

TextValues == {JAbsent, JStr(<<120>>)}
\* JSON bodies of POST /executive/leads: a field is missing (JAbsent), null,
\* or carries a value
FilterBodies ==
    [executive_id : QueryExecs, state : TextValues, category : TextValues,
     gender : TextValues, status : TextValues, bargain_type : TextValues,
     min_heat : {JAbsent, JInt(50)}, max_heat : {JAbsent, JNull, JInt(80)},
     prospect_percent : {JAbsent},
     sort_by : {JAbsent, JStr(NEWEST), JStr(OLDEST)}]

\* Variant of FilterPayload in which max_heat defaults to None like the rest.
FilterPayload_max_heat_none(body) ==
    [executive_id |-> body.executive_id,
     state |-> get(body, "state", JNull),
     category |-> get(body, "category", JNull),
     gender |-> get(body, "gender", JNull),
     status |-> get(body, "status", JNull),
     bargain_type |-> get(body, "bargain_type", JNull),
     min_heat |-> get(body, "min_heat", JNull),
     max_heat |-> get(body, "max_heat", JNull),
     prospect_percent |-> get(body, "prospect_percent", JNull),
     sort_by |-> get(body, "sort_by", JNull)]

\* pydantic validation: a missing field takes the declared default
FilterPayload(body) ==
    [executive_id |-> body.executive_id,
     state |-> get(body, "state", JNull),
     category |-> get(body, "category", JNull),
     gender |-> get(body, "gender", JNull),
     status |-> get(body, "status", JNull),
     bargain_type |-> get(body, "bargain_type", JNull),
     min_heat |-> get(body, "min_heat", JNull),
     max_heat |-> get(body, "max_heat", JInt(DefaultMaxHeat)),
     prospect_percent |-> get(body, "prospect_percent", JNull),
     sort_by |-> get(body, "sort_by", JNull)]

\* the parameters of get_leads_filtered
filter_params(payload) ==
    [p_executive_id |-> payload.executive_id,
     p_state |-> payload.state,
     p_category |-> payload.category,
     p_gender |-> payload.gender,
     p_status |-> payload.status,
     p_bargain |-> payload.bargain_type,
     p_min_heat |-> payload.min_heat,
     p_max_heat |-> payload.max_heat]

lead_list_post ==
    /\ pc = "idle"
    /\ \E body \in FilterBodies :
         LET payload == FilterPayload(body)
         IN /\ req' = body
            /\ \/ /\ issued' = <<Call("get_leads_filtered", filter_params(payload), FALSE)>>
                  /\ data' = <<>>
                  /\ resp' = Err
               \/ \E rows \in BSeq(LeadRows, MaxLeads) :
                    /\ issued' = <<Call("get_leads_filtered", filter_params(payload), TRUE)>>
                    /\ data' = <<rows>>
                    /\ resp' = list_response(payload.executive_id,
                                             order_leads(rows, payload.sort_by))
    /\ op' = "lead_list_post"
    /\ pc' = "done"
    /\ UNCHANGED <<assigned, cursor>>

-----------------------------------------------------------------------------
(* POST /manager/assign-leads *)

BulkAssignPayloads ==
    [assign_from : Execs, assign_to : Execs,
     candidate_ids : BSeq(CandidateIds, MaxIds),
     reason : {JNull, JStr(<<114>>)}]

assign_params(payload, cid) ==
    [p_candidate_id |-> cid, p_assign_to |-> payload.assign_to,
     p_assign_from |-> payload.assign_from, p_reason |-> payload.reason]

\* What the stored procedure assign_lead does when it completes.
assign_lead_effect(store, params) ==
    [store EXCEPT ![params.p_candidate_id] = params.p_assign_to]

assign_bulk ==
    /\ pc = "idle"
    /\ \E payload \in BulkAssignPayloads : req' = payload
    /\ op' = "assign_bulk"
    /\ pc' = "assign_loop"
    /\ cursor' = 0
    /\ UNCHANGED <<issued, data, resp, assigned>>

\* Variant of assign_bulk_call that swallows a failed call and goes on.
assign_bulk_call_continue ==
    /\ pc = "assign_loop"
    /\ cursor < Len(req.candidate_ids)
    /\ LET cid == req.candidate_ids[cursor + 1]
           params == assign_params(req, cid)
       IN \/ /\ issued' = Append(issued, Call("assign_lead", params, TRUE))
             /\ assigned' = assign_lead_effect(assigned, params)
          \/ /\ issued' = Append(issued, Call("assign_lead", params, FALSE))
             /\ assigned' = assigned
    /\ cursor' = cursor + 1
    /\ UNCHANGED <<pc, resp, op, req, data>>

\* Variant of assign_bulk_call that hands the leads back when a call fails.
assign_bulk_call_rollback ==
    /\ pc = "assign_loop"
    /\ cursor < Len(req.candidate_ids)
    /\ LET cid == req.candidate_ids[cursor + 1]
           params == assign_params(req, cid)
       IN \/ /\ issued' = Append(issued, Call("assign_lead", params, TRUE))
             /\ assigned' = assign_lead_effect(assigned, params)
             /\ cursor' = cursor + 1
             /\ UNCHANGED <<pc, resp>>
          \/ /\ issued' = Append(issued, Call("assign_lead", params, FALSE))
             /\ assigned' = [c \in CandidateIds |->
                               IF \E k \in 1..cursor : req.candidate_ids[k] = c
                               THEN req.assign_from ELSE assigned[c]]
             /\ resp' = Err
             /\ pc' = "done"
             /\ UNCHANGED cursor
    /\ UNCHANGED <<op, req, data>>

\* one iteration of `for cid in payload.candidate_ids`
assign_bulk_call ==
    /\ pc = "assign_loop"
    /\ cursor < Len(req.candidate_ids)
    /\ LET cid == req.candidate_ids[cursor + 1]
           params == assign_params(req, cid)
       IN \/ /\ issued' = Append(issued, Call("assign_lead", params, TRUE))
             /\ assigned' = assign_lead_effect(assigned, params)
             /\ cursor' = cursor + 1
             /\ UNCHANGED <<pc, resp>>
          \/ /\ issued' = Append(issued, Call("assign_lead", params, FALSE))
             /\ resp' = Err
             /\ pc' = "done"
             /\ UNCHANGED <<assigned, cursor>>
    /\ UNCHANGED <<op, req, data>>

\* `return {"assigned": len(payload.candidate_ids)}`
assign_bulk_return ==
    /\ pc = "assign_loop"
    /\ cursor = Len(req.candidate_ids)
    /\ resp' = [kind |-> "assigned", assigned |-> Len(req.candidate_ids)]
    /\ pc' = "done"
    /\ UNCHANGED <<op, req, issued, data, assigned, cursor>>

-----------------------------------------------------------------------------

Init ==
    /\ pc = "idle"
    /\ op = "none"
    /\ req = <<>>
    /\ issued = <<>>
    /\ data = <<>>
    /\ resp = NoResp
    /\ assigned = [c \in CandidateIds |-> "A"]
    /\ cursor = 0

Next ==
    \/ get_profile
    \/ get_dashboard
    \/ lead_list_get
    \/ lead_list_post
    \/ manager_leads
    \/ manager_leads_candidates
    \/ lead_detail
    \/ lead_detail_timeline
    \/ lead_detail_offers
    \/ log_call
    \/ add_note
    \/ schedule_followup
    \/ update_status
    \/ send_offer
    \/ timeline
    \/ assign_bulk
    \/ assign_bulk_call
    \/ assign_bulk_return
    \/ exec_perf
    \/ exec_perf_offers
    \/ state_heatmap
    \/ followups

Spec == Init /\ [][Next]_vars

-----------------------------------------------------------------------------
(* Properties *)

AllCompleted == \A k \in 1..Len(issued) : issued[k].ok

\* The dashboard counts as the specification words them, for fetched rows R.
ExpectedSummary(R, today) ==
    [kind |-> "summary",
     total_assigned |-> Len(R),
     hot_leads |->
        Cardinality({k \in 1..Len(R) :
            R[k].lead_heat_score.t = "int" /\ R[k].lead_heat_score.i >= 70}),
     followups_today |->
        Cardinality({k \in 1..Len(R) :
            /\ R[k].follow_up_at.t = "str"
            /\ R[k].follow_up_at.s # <<>>
            /\ startswith(R[k].follow_up_at.s, today)}),
     fresh |-> Cardinality({k \in 1..Len(R) : R[k].lead_status = JStr(FRESH)}),
     bargainers |->
        Cardinality({k \in 1..Len(R) : R[k].lead_status = JStr(BARGAINING)})]

\* C1: for every row sequence R the candidates query returns and every
\* reference date, get_dashboard responds with the summary whose five counts
\* are those of R (all zero for an empty R).
C1_DashboardCounts ==
    (pc = "done" /\ op = "get_dashboard" /\ AllCompleted)
        => resp = ExpectedSummary(data[1], req.today)

\* The performance counts as the specification words them.
ExpectedPerf(C, O) ==
    [kind |-> "perf",
     calls |-> Len(C),
     connected |->
        Cardinality({k \in 1..Len(C) : C[k].action_type = JStr(CONNECTED)}),
     not_lifted |->
        Cardinality({k \in 1..Len(C) : C[k].action_type = JStr(NOT_LIFTED)}),
     offers_sent |-> Len(O)]

\* C2: for every call-log sequence C and offer-sent sequence O the two queries
\* return, exec_perf responds with calls = |C|, the connected and not_lifted
\* counts of C and offers_sent = |O|, so connected + not_lifted <= calls.
C2_PerfCounts ==
    (pc = "done" /\ op = "exec_perf" /\ AllCompleted)
        => /\ resp = ExpectedPerf(data[1], data[2])
           /\ resp.connected + resp.not_lifted <= resp.calls

\* C3 as claimed: a bulk assignment of N ids ends with {assigned: N} whether
\* or not the individual assign_lead calls succeeded.
C3_AssignedRegardless ==
    (pc = "done" /\ op = "assign_bulk")
        => resp = [kind |-> "assigned", assigned |-> Len(req.candidate_ids)]

\* C3 as amended: a bulk assignment of N ids ends with {assigned: N} exactly
\* when all N assign_lead calls completed; as soon as one fails the request
\* ends in a server error and {assigned: N} is not returned.
C3_AssignedIffAllCompleted ==
    (pc = "done" /\ op = "assign_bulk")
        => IF AllCompleted
           THEN /\ Len(issued) = Len(req.candidate_ids)
                /\ resp = [kind |-> "assigned", assigned |-> Len(req.candidate_ids)]
           ELSE resp = Err

C3_Witness ==
    /\ pc = "done" /\ op = "assign_bulk"
    /\ Len(req.candidate_ids) = 2
    /\ Len(issued) = 2 /\ issued[1].ok /\ ~issued[2].ok
    /\ resp = Err

\* C4: when its queries completed, an aggregation never ends in an error,
\* whatever optional fields the fetched rows lack or carry as null.
C4_NoErrorPath ==
    (pc = "done" /\ op \in {"get_dashboard", "exec_perf"} /\ AllCompleted)
        => resp.kind # "error"

\* The optional predicates of a filter request and the parameter each is
\* forwarded as.
PredicateParam ==
    [state |-> "p_state", category |-> "p_category", gender |-> "p_gender",
     status |-> "p_status", bargain_type |-> "p_bargain",
     min_heat |-> "p_min_heat", max_heat |-> "p_max_heat"]

Unset(f) == req[f].t = "absent"

\* C5 as claimed: every predicate the caller leaves unset reaches
\* get_leads_filtered as null.
C5_UnsetForwardedAsNull ==
    (op = "lead_list_post" /\ issued # <<>>)
        => \A f \in DOMAIN PredicateParam :
              Unset(f) => issued[1].params[PredicateParam[f]] = JNull

\* C5 as amended: every predicate the caller leaves unset reaches
\* get_leads_filtered as null, except max_heat, which reaches it as its
\* default 100; a predicate the caller sets is forwarded as sent, and the
\* request issues this one call, scoped by the executive id.
C5_UnsetForwardedAsDefault ==
    (op = "lead_list_post" /\ issued # <<>>)
        => /\ Len(issued) = 1
           /\ issued[1].name = "get_leads_filtered"
           /\ issued[1].params.p_executive_id = req.executive_id
           /\ \A f \in DOMAIN PredicateParam :
                issued[1].params[PredicateParam[f]] =
                    IF ~Unset(f) THEN req[f]
                    ELSE IF f = "max_heat" THEN JInt(100)
                    ELSE JNull

C5_Witness ==
    /\ op = "lead_list_post" /\ issued # <<>>
    /\ \A f \in DOMAIN PredicateParam : Unset(f)
    /\ Unset("sort_by")
    /\ issued[1].params.p_max_heat = JInt(100)
    /\ issued[1].params.p_state = JNull

\* the sort directive of the lead-list request being served
Directive ==
    IF op = "lead_list_get" THEN req.sort
    ELSE IF Unset("sort_by") THEN JNull ELSE req.sort_by

KeyOf(x) == IF x.created_at.t = "absent" THEN <<>> ELSE x.created_at.s

WithKey(rows, key) ==
    LET has(x) == KeyOf(x) = key IN SelectSeq(rows, has)

C7_FailuresSurface ==
    /\ \A k \in 1..Len(issued) :
          ~issued[k].ok => /\ k = Len(issued)
                           /\ pc = "done"
                           /\ resp = Err
    /\ resp.kind \notin {"none", "error"} => AllCompleted
    /\ resp.kind = "ack" => Len(issued) = 1 /\ issued[1].ok

C7_Witness ==
    /\ op = "lead_detail"
    /\ Len(issued) = 2 /\ issued[1].ok /\ ~issued[2].ok
    /\ pc = "done" /\ resp = Err

NotFound == data[1].row = <<>>

\* C8: a profile lookup matching no executive returns {}, and a lead detail
\* matching no candidate issues the timeline and offers calls and returns
\* candidate null with their rows.
C8_NotFoundIsEmpty ==
    /\ (pc = "done" /\ op = "get_profile" /\ AllCompleted /\ NotFound)
          => resp = [kind |-> "profile", body |-> EmptyObject]
    /\ (pc = "done" /\ op = "lead_detail" /\ issued[1].ok /\ NotFound)
          => /\ Len(issued) >= 2
             /\ AllCompleted =>
                  /\ Len(issued) = 3
                  /\ resp = [kind |-> "detail", candidate |-> <<>>,
                             timeline |-> data[2], offers |-> data[3]]

\* One step of a bulk assignment: at most one more call, and the store changes
\* only by the assignment of a call that completed.
BulkStep ==
    op' = "assign_bulk" =>
        \/ issued' = issued /\ assigned' = assigned
        \/ /\ Len(issued') = Len(issued) + 1
           /\ SubSeq(issued', 1, Len(issued)) = issued
           /\ LET c == issued'[Len(issued')]
              IN assigned' =
                    IF c.ok
                    THEN [assigned EXCEPT ![c.params.p_candidate_id] = c.params.p_assign_to]
                    ELSE assigned

\* The calls of a bulk assignment so far: one per element consumed, in list
\* order, each with the request's assign_to, assign_from and reason, a call
\* being issued only after the one before it completed.
BulkCalls ==
    op = "assign_bulk" =>
        /\ Len(issued) <= Len(req.candidate_ids)
        /\ \A k \in 1..Len(issued) :
              /\ issued[k].name = "assign_lead"
              /\ issued[k].params =
                    [p_candidate_id |-> req.candidate_ids[k],
                     p_assign_to |-> req.assign_to,
                     p_assign_from |-> req.assign_from,
                     p_reason |-> req.reason]
              /\ k < Len(issued) => issued[k].ok
        /\ (pc = "done" /\ AllCompleted) => Len(issued) = Len(req.candidate_ids)

\* C9 as claimed: a bulk assignment has, when it ends, issued exactly one
\* assign_lead call per element of candidate_ids.
C9_OneCallPerElement ==
    (pc = "done" /\ op = "assign_bulk")
        => Len(issued) = Len(req.candidate_ids)

\* C9 as amended: assign_bulk issues one assign_lead call per element of
\* candidate_ids, in list order and one at a time, all with the same
\* assign_to, assign_from and reason, up to the first call that fails; the
\* elements after a failed call get no call, the assignments of the calls
\* before it stay in the store and nothing undoes them.
C9_SequentialNoRollback == [][BulkStep]_vars /\ []BulkCalls

C9_Witness ==
    /\ pc = "done" /\ op = "assign_bulk" /\ resp = Err
    /\ Len(req.candidate_ids) > Len(issued)
    /\ Len(issued) = 2 /\ issued[1].ok /\ ~issued[2].ok
    /\ req.assign_to = "B"
    /\ assigned[req.candidate_ids[1]] = "B"

\* C10: manager_leads responds, for every executive id, with assigned_count
\* equal to the length of its leads list, which is the fetched candidate rows,
\* and with the name "" when no executive record matches.
C10_ManagerView ==
    (pc = "done" /\ op = "manager_leads" /\ AllCompleted)
        => /\ resp.kind = "manager"
           /\ resp.leads = data[2]
           /\ resp.assigned_count = Len(resp.leads)
           /\ NotFound => resp.name = JStr(<<>>)

====
